---- MODULE Spec2Model ----
(***************************************************************************)
(* A model of the chain-maintenance engine of blockchain-from-scratch:     *)
(* src/src/blockchain/mod.rs (Block, BlockChain) and, for the transaction  *)
(* codec whose source file (blockchain/transaction.rs) is not part of the  *)
(* tree, the layout the specification describes.                           *)
(*                                                                         *)
(* Byte strings are sequences of 0..255.  64-bit quantities are kept as    *)
(* their 8 big-endian bytes, so that u64 -> i64 casts and wrap-around are  *)
(* exact although TLC's own integers are 32 bits wide.                     *)
(***************************************************************************)
EXTENDS Integers, Sequences, FiniteSets, Bags, TLC

\* ------------------------------------------------------------------ bounds

\* The chain holds at most MaxChain blocks; mining and create_block stop there.
MaxChain == 3

\* ------------------------------------------------------- program constants

DIFFICULTY == 3

\* BlockChain::MINING_REWARD, a u64
MINING_REWARD == 1

\* "THE BLOCKCHAIN" as bytes
MINING_SENDER == <<84, 72, 69, 32, 66, 76, 79, 67, 75, 67, 72, 65, 73, 78>>

\* i32::MAX and i32::MIN, the range of Block.nonce
I32_MAX == 2147483647
I32_MIN == (-I32_MAX) - 1

\* ------------------------------------------------------------------- bytes

\* The w big-endian bytes of the two's complement integer n, |n| < 2^31
\* (i32::to_be_bytes, u64::to_be_bytes, u128::to_be_bytes, usize::to_be_bytes).
to_be_bytes(n, w) ==
    [i \in 1..w |->
        IF w - i >= 4
            THEN (IF n < 0 THEN 255 ELSE 0)
            ELSE (n \div (256 ^ (w - i))) % 256]

\* A u64 given by a small number.
U64(n) == to_be_bytes(n, 8)

\* An i64 given by a small number.
I64(n) == to_be_bytes(n, 8)

\* The sign bit of an i64 held as 8 bytes.
IsNegative(a) == a[1] >= 128

\* a + b modulo 2^64 on 8-byte big-endian operands.
wrapping_add(a, b) ==
    LET carry[i \in 1..9] ==
            IF i = 9 THEN 0 ELSE (a[i] + b[i] + carry[i + 1]) \div 256
    IN  [i \in 1..8 |-> (a[i] + b[i] + carry[i + 1]) % 256]

\* -b modulo 2^64.
wrapping_neg(b) == wrapping_add([i \in 1..8 |-> 255 - b[i]], U64(1))

\* a - b modulo 2^64.
wrapping_sub(a, b) == wrapping_add(a, wrapping_neg(b))

\* Whether the signed sum a + b leaves the i64 range.
add_overflows(a, b) ==
    /\ IsNegative(a) = IsNegative(b)
    /\ IsNegative(wrapping_add(a, b)) # IsNegative(a)

\* Whether the signed difference a - b leaves the i64 range.
sub_overflows(a, b) ==
    /\ IsNegative(a) # IsNegative(b)
    /\ IsNegative(wrapping_sub(a, b)) # IsNegative(a)

\* The concatenation of a sequence of byte strings.
RECURSIVE Concat(_)
Concat(ss) == IF ss = <<>> THEN <<>> ELSE Head(ss) \o Concat(Tail(ss))

\* ------------------------------------------------------------ transactions

\* Transaction::new
Transaction(sender, recipient, value) ==
    [sender_address |-> sender, recipient_address |-> recipient, value |-> value]

\* Transaction::serialization: the three fields in fixed order, each address
\* preceded by its length, the value as its 8 big-endian bytes.
serialization(tx) ==
    <<Len(tx.sender_address)>> \o tx.sender_address
        \o <<Len(tx.recipient_address)>> \o tx.recipient_address
        \o tx.value

\* Transaction::deserialization: the inverse walk over the same layout.
deserialization(bytes) ==
    LET ls == bytes[1]
        lr == bytes[2 + ls]
    IN  [sender_address    |-> SubSeq(bytes, 2, 1 + ls),
         recipient_address |-> SubSeq(bytes, 3 + ls, 2 + ls + lr),
         value             |-> SubSeq(bytes, 3 + ls + lr, 10 + ls + lr)]

\* ------------------------------------------------------------------ blocks

\* Block::new with the clock reading `now`.
Block(nonce, previous_hash, now) ==
    [nonce |-> nonce, previous_hash |-> previous_hash,
     time_stamp |-> now, transactions |-> <<>>]

\* The byte string Block::hash feeds to the hasher.
hash_input(b) ==
    to_be_bytes(b.nonce, 4) \o b.previous_hash
        \o to_be_bytes(b.time_stamp, 16) \o Concat(b.transactions)

\* The class (0..250) of a byte string: the sum of (bin[i] + 1) * (2 * i + 1)
\* modulo 251, so that the class depends on every byte and on its position.
\* The terms are positive, which makes the function from positions to terms
\* a bag, and the sum its cardinality.
Mix(bin) ==
    BagCardinality([i \in 1..Len(bin) |-> (bin[i] + 1) * (2 * i + 1)]) % 251

\* Sha256, abstracted: a deterministic function from byte strings to 32-byte
\* digests.  The input falls into one of 251 classes and each class has its
\* own digest; one class in five has a digest whose hexadecimal form starts
\* with three zeros.
Sha256(bin) ==
    LET m == Mix(bin)
    IN  [i \in 1..32 |->
            CASE i = 1  -> (m % 4) * 37
              [] i = 2  -> ((m \div 4) % 5) * 4 + (m % 4)
              [] i = 32 -> 1 + m
              [] OTHER  -> (m * i + i) % 256]

\* Block::hash
hash(b) == Sha256(hash_input(b))

\* hex::encode: two lowercase hexadecimal characters per byte.
HexDigits ==
    <<"0", "1", "2", "3", "4", "5", "6", "7",
      "8", "9", "a", "b", "c", "d", "e", "f">>

HexDigit(n) == HexDigits[n + 1]

hex_encode(bytes) ==
    [i \in 1..(2 * Len(bytes)) |->
        IF i % 2 = 1 THEN HexDigit(bytes[(i + 1) \div 2] \div 16)
                     ELSE HexDigit(bytes[i \div 2] % 16)]

\* The test of do_proof_of_work: hash_str[0..DIFFICULTY] == "0".repeat(DIFFICULTY)
meets_difficulty(b) ==
    SubSeq(hex_encode(hash(b)), 1, DIFFICULTY) = [i \in 1..DIFFICULTY |-> "0"]

\* impl PartialEq for Block: both digests are taken from self.
eq(self, other) ==
    LET self_hash  == hash(self)
        other_hash == hash(self)
    IN  self_hash = other_hash

\* impl AddAssign<i32> for Block
\* self.nonce += rhs on an i32: a sum outside the i32 range panics in a
\* debug build and wraps modulo 2^32 in a release build.
add_assign(b, rhs, build) ==
    LET over  == rhs > 0 /\ b.nonce > I32_MAX - rhs
        under == rhs < 0 /\ b.nonce < I32_MIN - rhs
    IN  IF (over \/ under) /\ build = "debug" THEN [tag |-> "Panic"]
        ELSE [tag |-> "Ok",
              val |-> [b EXCEPT !.nonce =
                        IF over THEN ((b.nonce - I32_MAX) - 1) + ((rhs - I32_MAX) - 1)
                        ELSE IF under THEN ((b.nonce + I32_MAX) + 1) + ((rhs + I32_MAX) + 1)
                        ELSE b.nonce + rhs]]

\* A do_proof_of_work that returns the block without searching.
do_proof_of_work_skipped(b, build) == [tag |-> "Ok", val |-> b]

\* A do_proof_of_work that starts at the nonce after the one it is given.
RECURSIVE do_proof_of_work_from_next(_, _)
do_proof_of_work_from_next(b, build) ==
    LET next == add_assign(b, 1, build)
    IN  IF next.tag = "Panic" \/ meets_difficulty(next.val) THEN next
        ELSE do_proof_of_work_from_next(next.val, build)

\* BlockChain::do_proof_of_work: the block as the loop leaves it, or the
\* panic of the increment.
RECURSIVE do_proof_of_work(_, _)
do_proof_of_work(b, build) ==
    IF meets_difficulty(b) THEN [tag |-> "Ok", val |-> b]
    ELSE LET next == add_assign(b, 1, build)
         IN  IF next.tag = "Panic" THEN next
             ELSE do_proof_of_work(next.val, build)

\* ------------------------------------------------------------- the chain

VARIABLES
    chain,               \* BlockChain.chain: Vec<Block>
    transaction_pool,    \* BlockChain.transaction_pool: Vec<Vec<u8>>
    blockchain_address,  \* BlockChain.blockchain_address, as bytes
    call,                \* the operation that ran last, with its arguments
    ret                  \* what that operation returned

vars == <<chain, transaction_pool, blockchain_address, call, ret>>

\* A BlockChain value.
BC(c, p, a) == [chain |-> c, transaction_pool |-> p, blockchain_address |-> a]

\* Vec indexing with a 0-based index: the element, or a panic out of range.
vec_index(v, index) ==
    IF index < Len(v) THEN [tag |-> "Ok", val |-> v[index + 1]]
                      ELSE [tag |-> "Panic"]

\* impl Index<usize> for BlockChain: self.chain.get(index), or a panic.
index(c, i) ==
    IF i < Len(c) THEN [tag |-> "Ok", val |-> c[i + 1]]
                  ELSE [tag |-> "Panic"]

\* A last_block that returns the oldest block instead of the newest.
last_block_oldest(c) ==
    IF Len(c) = 0 THEN [tag |-> "Panic"] ELSE [tag |-> "Ok", val |-> c[1]]

\* BlockChain::last_block
last_block(c) ==
    IF Len(c) = 0 THEN [tag |-> "Panic"]
    ELSE IF Len(c) = 1 THEN vec_index(c, Len(c) - 1)
    ELSE [tag |-> "Ok", val |-> c[Len(c)]]

\* An add_transaction without the duplicate check.
add_transaction_unchecked(pool, bytes) == Append(pool, bytes)

\* An add_transaction that compares with the newest pending entry only.
add_transaction_newest_only(pool, bytes) ==
    IF Len(pool) > 0 /\ pool[Len(pool)] = bytes
        THEN pool
        ELSE Append(pool, bytes)

\* BlockChain::add_transaction, on the pool, with the transaction's encoding.
add_transaction(pool, bytes) ==
    IF \E i \in 1..Len(pool) : pool[i] = bytes
        THEN pool
        ELSE Append(pool, bytes)

\* A create_block that inserts the sealed block at the front of the chain.
create_block_at_front(bc, previous_hash, now, build) ==
    LET b0 == Block(0, previous_hash, now)
        b  == [b0 EXCEPT !.transactions = bc.transaction_pool]
        r  == do_proof_of_work(b, build)
    IN  [tag |-> r.tag,
         val |-> BC(IF r.tag = "Ok" THEN <<r.val>> \o bc.chain ELSE bc.chain,
                    <<>>, bc.blockchain_address)]

\* A create_block that copies the pool into the block newest first.
create_block_newest_first(bc, previous_hash, now, build) ==
    LET b0 == Block(0, previous_hash, now)
        n  == Len(bc.transaction_pool)
        b  == [b0 EXCEPT !.transactions =
                    [i \in 1..n |-> bc.transaction_pool[n + 1 - i]]]
        r  == do_proof_of_work(b, build)
    IN  [tag |-> r.tag,
         val |-> BC(IF r.tag = "Ok" THEN Append(bc.chain, r.val) ELSE bc.chain,
                    <<>>, bc.blockchain_address)]

\* A create_block that leaves the pool as it was.
create_block_pool_kept(bc, previous_hash, now, build) ==
    LET b0 == Block(0, previous_hash, now)
        b  == [b0 EXCEPT !.transactions = bc.transaction_pool]
        r  == do_proof_of_work(b, build)
    IN  [tag |-> r.tag,
         val |-> BC(IF r.tag = "Ok" THEN Append(bc.chain, r.val) ELSE bc.chain,
                    bc.transaction_pool, bc.blockchain_address)]

\* BlockChain::create_block with the clock reading `now`: the BlockChain it
\* leaves, and whether it returned or panicked in the nonce search (the pool
\* is cleared before the search, the block is pushed after it).
create_block(bc, previous_hash, now, build) ==
    LET b0 == Block(0, previous_hash, now)
        b  == [b0 EXCEPT !.transactions = bc.transaction_pool]
        r  == do_proof_of_work(b, build)
    IN  [tag |-> r.tag,
         val |-> BC(IF r.tag = "Ok" THEN Append(bc.chain, r.val) ELSE bc.chain,
                    <<>>, bc.blockchain_address)]

\* A reward transaction with sender and recipient exchanged.
reward_transaction_reversed(address) ==
    [sender_address |-> address, recipient_address |-> MINING_SENDER,
     value |-> U64(MINING_REWARD)]

\* The reward transaction mining issues.
reward_transaction(address) ==
    Transaction(MINING_SENDER, address, U64(MINING_REWARD))

\* A mining that seals its block with the digest of the genesis block.
mining_on_genesis(bc, now, build) ==
    LET tx == reward_transaction(bc.blockchain_address)
        bc1 == BC(bc.chain,
                  add_transaction(bc.transaction_pool, serialization(tx)),
                  bc.blockchain_address)
    IN  create_block(bc1, hash(bc1.chain[1]), now, build)

\* BlockChain::mining with the clock reading `now`.
mining(bc, now, build) ==
    LET tx == reward_transaction(bc.blockchain_address)
        bc1 == BC(bc.chain,
                  add_transaction(bc.transaction_pool, serialization(tx)),
                  bc.blockchain_address)
    IN  create_block(bc1, hash(last_block(bc1.chain).val), now, build)

\* BlockChain::new with the two clock readings it takes.
new(address, now0, now1, build) ==
    LET b == Block(0, <<0, 32>>, now0)
    IN  mining(BC(<<b>>, <<>>, address), now1, build)

\* A search_block whose index test is index > len.
search_block_off_by_one(c, search) ==
    IF Len(c) = 0 THEN [tag |-> "FailOfEmptyBlocks"]
    ELSE IF search.key > Len(c)
        THEN [tag |-> "FailOfIndex", key |-> search.key]
        ELSE LET r == vec_index(c, search.key)
             IN  IF r.tag = "Ok" THEN [tag |-> "Success", block |-> r.val]
                                 ELSE r

\* A search_block whose scan returns the last block that matches.
search_block_last_match(c, search) ==
    LET matches(b) ==
            CASE search.tag = "SearchByPreviousHash" -> b.previous_hash = search.key
              [] search.tag = "SearchByBlockHash"    -> hash(b) = search.key
              [] search.tag = "SearchByNonce"        -> b.nonce = search.key
              [] search.tag = "SearchByTimestamp"    -> b.time_stamp = search.key
              [] search.tag = "SearchByTransaction"  ->
                    \E j \in 1..Len(b.transactions) : b.transactions[j] = search.key
        hits == {i \in 1..Len(c) : matches(c[i])}
    IN  IF hits # {}
            THEN [tag |-> "Success",
                  block |-> c[CHOOSE i \in hits : \A j \in hits : i >= j]]
            ELSE [tag |-> CASE search.tag = "SearchByPreviousHash" -> "FailOfPreviousHash"
                            [] search.tag = "SearchByBlockHash"    -> "FailOfBlockHash"
                            [] search.tag = "SearchByNonce"        -> "FailOfNonce"
                            [] search.tag = "SearchByTimestamp"    -> "FailOfTimestamp"
                            [] search.tag = "SearchByTransaction"  -> "FailOfTransaction",
                  key |-> search.key]

\* BlockChain::search_block
search_block(c, search) ==
    IF Len(c) = 0 THEN [tag |-> "FailOfEmptyBlocks"]
    ELSE IF search.tag = "SearchByIndex" THEN
        IF search.key >= Len(c)
            THEN [tag |-> "FailOfIndex", key |-> search.key]
            ELSE LET r == vec_index(c, search.key)
                 IN  IF r.tag = "Ok" THEN [tag |-> "Success", block |-> r.val]
                                     ELSE r
    ELSE
        LET matches(b) ==
                CASE search.tag = "SearchByPreviousHash" -> b.previous_hash = search.key
                  [] search.tag = "SearchByBlockHash"    -> hash(b) = search.key
                  [] search.tag = "SearchByNonce"        -> b.nonce = search.key
                  [] search.tag = "SearchByTimestamp"    -> b.time_stamp = search.key
                  [] search.tag = "SearchByTransaction"  ->
                        \E j \in 1..Len(b.transactions) : b.transactions[j] = search.key
            hits == {i \in 1..Len(c) : matches(c[i])}
        IN  IF hits # {}
                THEN [tag |-> "Success",
                      block |-> c[CHOOSE i \in hits : \A j \in hits : i <= j]]
                ELSE CASE search.tag = "SearchByPreviousHash" ->
                            [tag |-> "FailOfPreviousHash", key |-> search.key]
                       [] search.tag = "SearchByBlockHash" ->
                            [tag |-> "FailOfBlockHash", key |-> search.key]
                       [] search.tag = "SearchByNonce" ->
                            [tag |-> "FailOfNonce", key |-> search.key]
                       [] search.tag = "SearchByTimestamp" ->
                            [tag |-> "FailOfTimestamp", key |-> search.key]
                       [] search.tag = "SearchByTransaction" ->
                            [tag |-> "FailOfTransaction", key |-> search.key]

\* total_amount += value as i64: an overflow panics in a debug build and
\* wraps in a release build.
add_i64(total, value, build) ==
    IF total.tag = "Panic" THEN total
    ELSE IF build = "debug" /\ add_overflows(total.val, value) THEN [tag |-> "Panic"]
    ELSE [tag |-> "Ok", val |-> wrapping_add(total.val, value)]

\* total_amount -= value as i64
sub_i64(total, value, build) ==
    IF total.tag = "Panic" THEN total
    ELSE IF build = "debug" /\ sub_overflows(total.val, value) THEN [tag |-> "Panic"]
    ELSE [tag |-> "Ok", val |-> wrapping_sub(total.val, value)]

\* A loop body that credits the sender and debits the recipient.
account_reversed(total, t, address, build) ==
    LET tx == deserialization(t)
        t1 == IF address = tx.sender_address
                  THEN add_i64(total, tx.value, build) ELSE total
    IN  IF address = tx.recipient_address THEN sub_i64(t1, tx.value, build) ELSE t1

\* The loop body of calculate_total_amount for one encoded transaction.
account(total, t, address, build) ==
    LET tx == deserialization(t)
        t1 == IF address = tx.recipient_address
                  THEN add_i64(total, tx.value, build) ELSE total
    IN  IF address = tx.sender_address THEN sub_i64(t1, tx.value, build) ELSE t1

\* BlockChain::calculate_total_amount
calculate_total_amount(c, address, build) ==
    LET txs == Concat([i \in 1..Len(c) |-> c[i].transactions])
        total[n \in 0..Len(txs)] ==
            IF n = 0 THEN [tag |-> "Ok", val |-> I64(0)]
                     ELSE account(total[n - 1], txs[n], address, build)
    IN  total[Len(txs)]

\* ------------------------------------------------------------------ inputs

\* The addresses callers use: "A", "B", "M" (an owner) and "X" (a bystander).
AddrA == <<65>>
AddrB == <<66>>
AddrM == <<77>>
AddrX == <<88>>

\* The address a chain is constructed with.
Owners == {AddrM, MINING_SENDER}

\* The addresses balances are asked for.
Addresses == {AddrA, AddrB, AddrM, AddrX, MINING_SENDER}

\* 2^63 as a u64: the smallest value whose cast to i64 is negative.
TwoTo63 == <<128, 0, 0, 0, 0, 0, 0, 0>>

\* The transactions callers hand to add_transaction.
TxInputs ==
    { Transaction(AddrA, AddrB, U64(5)),
      Transaction(AddrA, AddrB, TwoTo63),
      Transaction(MINING_SENDER, AddrM, U64(MINING_REWARD)) }

\* The readings of the wall clock (nanoseconds since the epoch).  A reading
\* is never earlier than the reading before it.
Times == {1, 2}

\* 32 zero bytes.
ZeroHash == [i \in 1..32 |-> 0]

\* The previous_hash values callers hand to create_block: the digest of the
\* last block, and 32 zero bytes.
PreviousHashInputs == {hash(chain[Len(chain)]), ZeroHash}

\* The searches callers make.
SearchInputs ==
    [tag : {"SearchByIndex"}, key : 0..(MaxChain + 1)]

\* The searches by value callers make: for each criterion a key some block
\* may hold and a key it may not.
ValueSearchInputs ==
    [tag : {"SearchByPreviousHash"},
     key : {chain[Len(chain)].previous_hash, ZeroHash}]
    \cup [tag : {"SearchByBlockHash"}, key : {hash(chain[1]), ZeroHash}]
    \cup [tag : {"SearchByNonce"}, key : {0, 1}]
    \cup [tag : {"SearchByTimestamp"}, key : Times]
    \cup [tag : {"SearchByTransaction"},
          key : {serialization(Transaction(AddrA, AddrB, U64(5))),
                 serialization(reward_transaction(blockchain_address))}]

\* Blocks a caller builds itself (the fields of Block are public): A and B
\* differ in previous_hash and time_stamp, C and D in how the same bytes are
\* split into transactions, A and E in the nonce.
BlockA == [nonce |-> 0, previous_hash |-> <<>>, time_stamp |-> 1,
           transactions |-> << <<7>> >>]
BlockB == [nonce |-> 0, previous_hash |-> <<0>>, time_stamp |-> 263,
           transactions |-> <<>>]
BlockC == [nonce |-> 0, previous_hash |-> <<>>, time_stamp |-> 1,
           transactions |-> << <<7, 8>> >>]
BlockD == [nonce |-> 0, previous_hash |-> <<>>, time_stamp |-> 1,
           transactions |-> << <<7>>, <<8>> >>]
BlockE == [nonce |-> 1, previous_hash |-> <<>>, time_stamp |-> 1,
           transactions |-> << <<7>> >>]

\* The blocks callers compare: their own and the ends of the chain.
BlockInputs ==
    {BlockA, BlockB, BlockC, BlockD, BlockE, chain[1], chain[Len(chain)]}

\* The indices callers read the chain at.
IndexInputs == 0..MaxChain

\* The nonces of the blocks callers increment, and the increments.
NonceInputs == {0, 1, I32_MAX, I32_MIN}
RhsInputs == {1, -1}

\* The two builds of the program: with and without overflow checks.
Builds == {"debug", "release"}

\* ------------------------------------------------------------- behaviour

\* The state BlockChain::new(address) returns.  The genesis block takes the
\* first reading of the clock; the block mined next takes the same reading or
\* a later one.
Init ==
    \E address \in Owners, now1 \in Times, build \in Builds :
        \E r \in {new(address, 1, now1, build)} :
            /\ r.tag = "Ok"
            /\ chain = r.val.chain
            /\ transaction_pool = r.val.transaction_pool
            /\ blockchain_address = r.val.blockchain_address
            /\ call = [name |-> "new", arg |-> address]
            /\ ret = [tag |-> "Ok"]

Self == BC(chain, transaction_pool, blockchain_address)

\* The operations that take &mut self.  search_block, last_block and
\* calculate_total_amount take &self and cannot change the BlockChain, so a
\* run is explored as a sequence of mutations closed by one query: every
\* query is made in every state the mutations reach.
Mutable == call.name \in {"new", "add_transaction", "mining", "create_block"}

AddTransaction(tx) ==
    /\ Mutable
    /\ Len(chain) < MaxChain
    /\ transaction_pool' = add_transaction(transaction_pool, serialization(tx))
    /\ call' = [name |-> "add_transaction", arg |-> tx]
    /\ ret' = [tag |-> "Ok"]
    /\ UNCHANGED <<chain, blockchain_address>>

Mining(now, build) ==
    /\ Mutable
    /\ Len(chain) < MaxChain
    /\ now >= chain[Len(chain)].time_stamp
    /\ \E r \in {mining(Self, now, build)} :
            /\ chain' = r.val.chain
            /\ transaction_pool' = r.val.transaction_pool
            /\ ret' = IF r.tag = "Ok" THEN [tag |-> "Ok", val |-> TRUE]
                                     ELSE [tag |-> "Panic"]
    /\ call' = [name |-> "mining", arg |-> now]
    /\ UNCHANGED blockchain_address

CreateBlock(now, build) ==
    /\ Mutable
    /\ Len(chain) < MaxChain
    /\ now >= chain[Len(chain)].time_stamp
    /\ \E previous_hash \in PreviousHashInputs :
            /\ \E r \in {create_block(Self, previous_hash, now, build)} :
                    /\ chain' = r.val.chain
                    /\ transaction_pool' = r.val.transaction_pool
                    /\ ret' = [tag |-> r.tag]
            /\ call' = [name |-> "create_block", arg |-> previous_hash]
    /\ UNCHANGED blockchain_address

LastBlock ==
    /\ Mutable
    /\ call' = [name |-> "last_block", arg |-> <<>>]
    /\ ret' = last_block(chain)
    /\ UNCHANGED <<chain, transaction_pool, blockchain_address>>

SearchBlock(search) ==
    /\ Mutable
    /\ call' = [name |-> "search_block", arg |-> search]
    /\ ret' = search_block(chain, search)
    /\ UNCHANGED <<chain, transaction_pool, blockchain_address>>

CalculateTotalAmount(address, build) ==
    /\ Mutable
    /\ call' = [name |-> "calculate_total_amount", arg |-> address]
    /\ ret' = calculate_total_amount(chain, address, build)
    /\ UNCHANGED <<chain, transaction_pool, blockchain_address>>

Next ==
    \/ \E tx \in TxInputs : AddTransaction(tx)
    \/ \E now \in Times, build \in Builds : Mining(now, build)
    \/ \E now \in Times, build \in Builds : CreateBlock(now, build)
    \/ LastBlock
    \/ \E search \in SearchInputs : SearchBlock(search)
    \/ \E address \in Addresses, build \in Builds :
            CalculateTotalAmount(address, build)

Spec == Init /\ [][Next]_vars

\* The callers that use add_transaction and mining only.
NextMining ==
    \/ \E tx \in TxInputs : AddTransaction(tx)
    \/ \E now \in Times, build \in Builds : Mining(now, build)

SpecMining == Init /\ [][NextMining]_vars

\* a == b on two blocks.
Eq(a, b) ==
    /\ Mutable
    /\ call' = [name |-> "eq", arg |-> <<a, b>>]
    /\ ret' = [tag |-> "Ok", val |-> eq(a, b)]
    /\ UNCHANGED <<chain, transaction_pool, blockchain_address>>

\* &block_chain[i]
IndexChain(i) ==
    /\ Mutable
    /\ call' = [name |-> "index", arg |-> i]
    /\ ret' = index(chain, i)
    /\ UNCHANGED <<chain, transaction_pool, blockchain_address>>

\* block += rhs on a block the caller made with Block::new(nonce, vec![]).
AddAssign(nonce, rhs, build) ==
    /\ Mutable
    /\ call' = [name |-> "add_assign", arg |-> <<nonce, rhs>>]
    /\ ret' = add_assign(Block(nonce, <<>>, 1), rhs, build)
    /\ UNCHANGED <<chain, transaction_pool, blockchain_address>>

\* The callers that work on blocks: they compare them, read them from the
\* chain by index and increment them.
NextBlock ==
    \/ \E tx \in TxInputs : AddTransaction(tx)
    \/ \E now \in Times, build \in Builds : Mining(now, build)
    \/ LastBlock
    \/ \E a \in BlockInputs, b \in BlockInputs : Eq(a, b)
    \/ \E i \in IndexInputs : IndexChain(i)
    \/ \E nonce \in NonceInputs, rhs \in RhsInputs, build \in Builds :
            AddAssign(nonce, rhs, build)

SpecBlock == Init /\ [][NextBlock]_vars

\* The callers that search the chain by value.
NextSearch ==
    \/ \E tx \in TxInputs : AddTransaction(tx)
    \/ \E now \in Times, build \in Builds : Mining(now, build)
    \/ \E now \in Times, build \in Builds : CreateBlock(now, build)
    \/ \E search \in ValueSearchInputs : SearchBlock(search)

SpecSearch == Init /\ [][NextSearch]_vars

\* ------------------------------------------------------------------ claims

\* The newest block of the chain (the chain is never empty).
Newest(c) == c[Len(c)]

\* The encoded reward transaction of this chain.
Reward == serialization(reward_transaction(blockchain_address))

\* C1, as stated: in every reachable state, whatever previous_hash the
\* callers of create_block chose, every block after the first holds the
\* digest of the block before it.
C1_Linkage ==
    \A i \in 2..Len(chain) : chain[i].previous_hash = hash(chain[i - 1])

\* C1, amended: a block sealed by mining, or by create_block called with the
\* digest of the then-newest block, holds the digest of the block it is
\* appended after; create_block does not check the previous_hash it is given.
C1_SealedLinkage ==
    [][(\/ call'.name = "mining"
        \/ /\ call'.name = "create_block"
           /\ call'.arg = hash(Newest(chain)))
       => /\ Len(chain') = Len(chain) + 1
          /\ Newest(chain').previous_hash = hash(Newest(chain))]_vars

\* A third block, sealed by create_block with the digest of the second.
C1_Witness ==
    /\ call.name = "create_block"
    /\ Len(chain) >= 3
    /\ call.arg = hash(chain[Len(chain) - 1])
    /\ Newest(chain).previous_hash = call.arg

\* C2: every block except the genesis block has a digest whose hexadecimal
\* form starts with DIFFICULTY characters "0", as the block is stored.
C2_Difficulty ==
    \A i \in 2..Len(chain) :
        LET hash_str == hex_encode(hash(chain[i]))
        IN  \A k \in 1..DIFFICULTY : hash_str[k] = "0"

\* A block, sealed after construction, for which the search had to move the
\* nonce.
C2_Witness ==
    \E i \in 3..Len(chain) :
        /\ chain[i].nonce > 0
        /\ ~ meets_difficulty([chain[i] EXCEPT !.nonce = 0])

\* C3, as stated: right after BlockChain::new the chain has at least two
\* blocks and the genesis block's previous_hash is 32 zero bytes.
C3_Genesis ==
    call.name = "new" =>
        /\ Len(chain) >= 2
        /\ chain[1].previous_hash = ZeroHash

\* C4: the chain is append-only and sealed blocks are frozen: mining and
\* create_block append one block and leave the others as they were, and
\* every other operation leaves the chain unchanged.
C4_AppendOnly ==
    [][/\ call'.name \in {"mining", "create_block"} =>
            /\ Len(chain') = Len(chain) + 1
            /\ SubSeq(chain', 1, Len(chain)) = chain
       /\ call'.name \in {"add_transaction", "search_block", "last_block",
                          "calculate_total_amount"} =>
            chain' = chain]_vars

\* A block appended, after a search that moved its nonce, to a chain of two.
C4_Witness ==
    /\ call.name \in {"mining", "create_block"}
    /\ Len(chain) = 3
    /\ Newest(chain).nonce > 0

\* C5: the pending pool holds no two byte-identical encoded transactions.
C5_PoolNoDuplicates ==
    \A i, j \in 1..Len(transaction_pool) :
        i # j => transaction_pool[i] # transaction_pool[j]

\* A pool of two after add_transaction was called with the older of them.
C5_Witness ==
    /\ call.name = "add_transaction"
    /\ Len(transaction_pool) = 2
    /\ transaction_pool[1] = serialization(call.arg)

\* C6: add_transaction appends an encoding the pool does not hold at the
\* end of the pool, leaves the pool as it is when it holds the encoding
\* (so a second call with the same transaction changes nothing), and
\* leaves the chain unchanged.
C6_AddIdempotent ==
    [][call'.name = "add_transaction" =>
        LET bytes == serialization(call'.arg)
            held == \E i \in 1..Len(transaction_pool) : transaction_pool[i] = bytes
        IN  /\ chain' = chain
            /\ held => transaction_pool' = transaction_pool
            /\ ~ held => transaction_pool' = Append(transaction_pool, bytes)
            /\ (call.name = "add_transaction" /\ call.arg = call'.arg) =>
                    transaction_pool' = transaction_pool]_vars

\* A pool of three whose last call was add_transaction with one it held.
C6_Witness ==
    /\ call.name = "add_transaction"
    /\ Len(transaction_pool) = 3
    /\ \E i \in 1..2 : transaction_pool[i] = serialization(call.arg)

\* C7: create_block moves the pool into the block it appends: the block's
\* transactions are the pool at the call, in order, and the pool is empty
\* afterwards; for mining the pool at the call is the pool with the reward
\* transaction added.
C7_Drain ==
    [][/\ call'.name = "create_block" =>
            /\ Newest(chain').transactions = transaction_pool
            /\ transaction_pool' = <<>>
       /\ call'.name = "mining" =>
            /\ Newest(chain').transactions =
                    IF \E i \in 1..Len(transaction_pool) : transaction_pool[i] = Reward
                        THEN transaction_pool
                        ELSE Append(transaction_pool, Reward)
            /\ transaction_pool' = <<>>]_vars

\* A block sealed by create_block from a pool of two.
C7_Witness ==
    /\ call.name = "create_block"
    /\ Len(Newest(chain).transactions) = 2
    /\ transaction_pool = <<>>

\* Every block after the genesis block holds the reward transaction and
\* nothing else: the chain as BlockChain::new and mining calls alone leave it.
OnlyRewards == \A i \in 2..Len(chain) : chain[i].transactions = <<Reward>>

\* C8, as stated: for every owner address, on a chain that holds only the
\* rewards of construction and of k further mining calls (k + 2 blocks), the
\* balance of the owner is (k + 1) * MINING_REWARD.
C8_RewardAccrues ==
    (/\ call.name = "calculate_total_amount"
     /\ call.arg = blockchain_address
     /\ OnlyRewards)
        => ret = [tag |-> "Ok", val |-> I64((Len(chain) - 1) * MINING_REWARD)]

\* C8, amended: the balance of the owner is (k + 1) * MINING_REWARD when the
\* owner is not MINING_SENDER itself; an owner named MINING_SENDER is both the
\* sender and the recipient of every reward, and its balance stays 0.
C8_RewardAccruesToOthers ==
    (/\ call.name = "calculate_total_amount"
     /\ call.arg = blockchain_address
     /\ OnlyRewards)
        => ret = [tag |-> "Ok",
                  val |-> IF blockchain_address = MINING_SENDER
                              THEN I64(0)
                              ELSE I64((Len(chain) - 1) * MINING_REWARD)]

\* The balance of an owner other than MINING_SENDER, asked for after
\* construction and one further mining call.
C8_Witness ==
    /\ call.name = "calculate_total_amount"
    /\ call.arg = blockchain_address
    /\ blockchain_address # MINING_SENDER
    /\ OnlyRewards
    /\ Len(chain) = 3
    /\ ret = [tag |-> "Ok", val |-> I64(2 * MINING_REWARD)]

\* The chain of the balance scenario: constructed with an owner, then one
\* transfer tx added to the pool and sealed by one mining call.  Owner,
\* sender, recipient and MINING_SENDER are four different addresses.
Scenario(tx) ==
    /\ Len(chain) = 3
    /\ chain[2].transactions = <<Reward>>
    /\ chain[3].transactions = <<serialization(tx), Reward>>
    /\ Cardinality({blockchain_address, tx.sender_address,
                    tx.recipient_address, MINING_SENDER}) = 4

\* C9: in the balance scenario with a transfer of V from A to B, the balance
\* of the owner is 2 * MINING_REWARD, the balance of A is -V, the balance of
\* B is V, and the balance of an address in no sealed transaction is 0.
\* Balances are signed 64-bit numbers: V is the bytes of V with the sign bit
\* clear, and -V is their two's complement, negative unless V is 0.
C9_BalanceScenario ==
    \A tx \in TxInputs :
        (Scenario(tx) /\ call.name = "calculate_total_amount") =>
            /\ ret.tag = "Ok"
            /\ call.arg = blockchain_address =>
                    ret.val = I64(2 * MINING_REWARD)
            /\ call.arg = tx.sender_address =>
                    /\ ret.val = wrapping_neg(tx.value)
                    /\ IsNegative(ret.val) \/ tx.value = U64(0)
            /\ call.arg = tx.recipient_address =>
                    /\ ret.val = tx.value
                    /\ ~ IsNegative(ret.val)
            /\ call.arg \notin {blockchain_address, tx.sender_address,
                                tx.recipient_address, MINING_SENDER} =>
                    ret.val = I64(0)

\* The outcomes search_block has for a value that no block holds.
NotFoundByValue ==
    {"FailOfPreviousHash", "FailOfBlockHash", "FailOfNonce",
     "FailOfTimestamp", "FailOfTransaction"}

\* C10: search_block(SearchByIndex(i)) on a non-empty chain returns Success
\* with the block at position i when i is less than the length of the
\* chain, and FailOfIndex(i) otherwise, which is neither a not-found-by-value
\* outcome nor FailOfEmptyBlocks; the call does not abort.
C10_SearchByIndex ==
    (/\ call.name = "search_block"
     /\ call.arg.tag = "SearchByIndex"
     /\ Len(chain) > 0)
        => /\ ret.tag # "Panic"
           /\ IF call.arg.key < Len(chain)
                THEN ret = [tag |-> "Success", block |-> chain[call.arg.key + 1]]
                ELSE /\ ret = [tag |-> "FailOfIndex", key |-> call.arg.key]
                     /\ ret.tag \notin NotFoundByValue \cup {"FailOfEmptyBlocks"}

\* A search for the index just past the newest block of a chain of three.
C10_Witness ==
    /\ call.name = "search_block"
    /\ call.arg = [tag |-> "SearchByIndex", key |-> Len(chain)]
    /\ Len(chain) = 3
    /\ ret.tag = "FailOfIndex"

\* Whether block b matches a search by value.
Matches(b, search) ==
    \/ search.tag = "SearchByPreviousHash" /\ b.previous_hash = search.key
    \/ search.tag = "SearchByBlockHash" /\ hash(b) = search.key
    \/ search.tag = "SearchByNonce" /\ b.nonce = search.key
    \/ search.tag = "SearchByTimestamp" /\ b.time_stamp = search.key
    \/ /\ search.tag = "SearchByTransaction"
       /\ \E j \in 1..Len(b.transactions) : b.transactions[j] = search.key

\* The Fail variant of each value criterion.
FailOf ==
    [SearchByPreviousHash |-> "FailOfPreviousHash",
     SearchByBlockHash    |-> "FailOfBlockHash",
     SearchByNonce        |-> "FailOfNonce",
     SearchByTimestamp    |-> "FailOfTimestamp",
     SearchByTransaction  |-> "FailOfTransaction"]

\* C11: for each value criterion search_block returns Success with the
\* lowest-index block that matches the key when a block matches, and the
\* Fail variant of the same criterion with the key it was given otherwise;
\* it does not return FailOfEmptyBlocks for a chain that has blocks.
C11_SearchByValue ==
    (call.name = "search_block" /\ call.arg.tag # "SearchByIndex") =>
        /\ Len(chain) > 0 => ret.tag # "FailOfEmptyBlocks"
        /\ \A i \in 1..Len(chain) :
                (/\ Matches(chain[i], call.arg)
                 /\ \A j \in 1..(i - 1) : ~ Matches(chain[j], call.arg))
                    => ret = [tag |-> "Success", block |-> chain[i]]
        /\ (\A i \in 1..Len(chain) : ~ Matches(chain[i], call.arg))
                => ret = [tag |-> FailOf[call.arg.tag], key |-> call.arg.key]

\* A search by value that two blocks match, answered with the older one.
C11_Witness ==
    /\ call.name = "search_block"
    /\ call.arg.tag = "SearchByTransaction"
    /\ \E i, j \in 1..Len(chain) :
            /\ i < j
            /\ Matches(chain[i], call.arg)
            /\ Matches(chain[j], call.arg)
            /\ \A k \in 1..(i - 1) : ~ Matches(chain[k], call.arg)
            /\ ret = [tag |-> "Success", block |-> chain[i]]
            /\ chain[i] # chain[j]

\* C12: a == b holds if and only if the digests of a and b are equal.
C12_BlockEquality ==
    call.name = "eq" =>
        (ret.val <=> hash(call.arg[1]) = hash(call.arg[2]))

\* C13: in every state reachable after construction the chain is not empty,
\* last_block returns the block at the highest index without taking its
\* empty-chain path, and search_block does not return FailOfEmptyBlocks.
C13_NonEmpty ==
    /\ Len(chain) >= 1
    /\ call.name = "last_block" =>
            ret = [tag |-> "Ok", val |-> chain[Len(chain)]]
    /\ call.name = "search_block" => ret.tag # "FailOfEmptyBlocks"

\* last_block on a chain of three, whose newest block is not its oldest.
C13_Witness ==
    /\ call.name = "last_block"
    /\ Len(chain) = 3
    /\ ret = [tag |-> "Ok", val |-> chain[3]]
    /\ chain[3] # chain[1]

\* C14: the failures of the chain engine are values returned to the caller:
\* reading the chain at an index beyond its length through the Index
\* implementation, and last_block, do not panic.
C14_Recoverable ==
    /\ call.name = "index" => ret.tag # "Panic"
    /\ call.name = "last_block" => ret.tag # "Panic"

\* C15: mining returns true, and the increment its proof-of-work loop
\* applies to the nonce has no failure outcome, also for a nonce that is
\* i32::MAX.
C15_MiningSucceeds ==
    /\ call.name = "mining" => ret = [tag |-> "Ok", val |-> TRUE]
    /\ (call.name = "add_assign" /\ call.arg[2] = 1) => ret.tag = "Ok"

\* C16: two blocks that differ in a field give Block::hash different byte
\* strings to hash.
C16_HashInputInjective ==
    (call.name = "eq" /\ call.arg[1] # call.arg[2]) =>
        hash_input(call.arg[1]) # hash_input(call.arg[2])

\* Numbers beyond TLC's integers, as <<h, l>> for h * 2^63 + l with |l| < 2^24.
\* The u64 v, whose bytes 2..5 and low seven bits of byte 1 are 0:
Unsigned(v) == <<v[1] \div 128, v[6] * 65536 + v[7] * 256 + v[8]>>

\* The i64 a, within 2^24 of -2^63, of 0 or of 2^63.
Signed(a) ==
    LET lo == a[6] * 65536 + a[7] * 256 + a[8]
        mid(x) == \A i \in 2..5 : a[i] = x
    IN  CASE a[1] = 0 /\ mid(0)       -> <<0, lo>>
          [] a[1] = 255 /\ mid(255)   -> <<0, lo - 16777216>>
          [] a[1] = 128 /\ mid(0)     -> <<-1, lo>>
          [] a[1] = 127 /\ mid(255)   -> <<1, lo - 16777216>>
          [] OTHER                    -> <<99, 0>>

\* The sum of the values address received minus the sum of the values it
\* sent, over the transactions of every block of c.
Balance(c, address) ==
    LET txs == Concat([i \in 1..Len(c) |-> c[i].transactions])
        sum[n \in 0..Len(txs)] ==
            IF n = 0 THEN <<0, 0>>
            ELSE LET tx == deserialization(txs[n])
                     v  == Unsigned(tx.value)
                     in == IF address = tx.recipient_address THEN 1 ELSE 0
                     out == IF address = tx.sender_address THEN 1 ELSE 0
                 IN  <<sum[n - 1][1] + (in - out) * v[1],
                       sum[n - 1][2] + (in - out) * v[2]>>
    IN  sum[Len(txs)]

\* C17: calculate_total_amount(address) is the sum of the values address
\* received minus the sum of the values it sent, for every u64 value.
C17_BalanceArithmetic ==
    call.name = "calculate_total_amount" =>
        /\ ret.tag = "Ok"
        /\ Signed(ret.val) = Balance(chain, call.arg)

\* C18: each mining call seals a block whose previous_hash is the digest of
\* the block that was last before the call, and in every state reached with
\* add_transaction and mining alone every block after the first holds the
\* digest of the block before it.
C18_MiningLinkage ==
    /\ [](\A i \in 2..Len(chain) : chain[i].previous_hash = hash(chain[i - 1]))
    /\ [][call'.name = "mining" =>
            /\ Len(chain') = Len(chain) + 1
            /\ chain'[Len(chain')].previous_hash = hash(chain[Len(chain)])]_vars

\* A chain of MaxChain blocks, the last sealed by mining after a transfer.
C18_Witness ==
    /\ call.name = "mining"
    /\ Len(chain) = MaxChain
    /\ Len(Newest(chain).transactions) >= 2
    /\ Newest(chain).previous_hash = hash(chain[Len(chain) - 1])
    /\ Newest(chain).previous_hash # hash(chain[1])

\* Whether block b holds the encoded transaction bytes.
Holds(b, bytes) == \E j \in 1..Len(b.transactions) : b.transactions[j] = bytes

SmallestNonce(b) ==
    /\ b.nonce >= 0
    /\ meets_difficulty(b)
    /\ \A n \in 0..(b.nonce - 1) : ~ meets_difficulty([b EXCEPT !.nonce = n])

\* C20: the nonce of every block sealed by create_block (called directly, by
\* mining or by BlockChain::new) is the smallest n >= 0 for which the block
\* meets the difficulty target, and the sealed block differs from the block
\* the search started with (nonce 0, the previous_hash given, the
\* transactions of the pool) in its nonce only.
C20_SmallestNonce ==
    /\ [](call.name = "new" =>
            /\ SmallestNonce(chain[2])
            /\ chain[2].previous_hash = hash(chain[1])
            /\ chain[2].transactions = <<Reward>>)
    /\ [][call'.name \in {"mining", "create_block"} =>
            LET b == chain'[Len(chain')]
                previous_hash == IF call'.name = "mining"
                                    THEN hash(chain[Len(chain)])
                                    ELSE call'.arg
                pool == IF call'.name = "create_block"
                                \/ \E i \in 1..Len(transaction_pool) :
                                        transaction_pool[i] = Reward
                            THEN transaction_pool
                            ELSE Append(transaction_pool, Reward)
            IN  /\ Len(chain') = Len(chain) + 1
                /\ SmallestNonce(b)
                /\ b.previous_hash = previous_hash
                /\ b.transactions = pool
                /\ b.time_stamp \in Times]_vars

\* A block sealed by create_block after the search passed nonces 0 and 1.
C20_Witness ==
    /\ call.name = "create_block"
    /\ Newest(chain).nonce >= 2
    /\ SmallestNonce(Newest(chain))
    /\ ~ meets_difficulty([Newest(chain) EXCEPT !.nonce = 1])

\* The number of copies of the reward transaction (sender MINING_SENDER,
\* recipient the owner of the chain, value MINING_REWARD) that block b holds.
RewardCopies(b) ==
    Cardinality({j \in 1..Len(b.transactions) :
        b.transactions[j] = serialization(
            [sender_address |-> MINING_SENDER,
             recipient_address |-> blockchain_address,
             value |-> U64(MINING_REWARD)])})

\* C21: every block sealed by mining (called by BlockChain::new or by a
\* caller) holds the reward transaction exactly once, whatever the pool held
\* before the call.
C21_RewardOnce ==
    /\ [](call.name = "new" => RewardCopies(chain[2]) = 1)
    /\ [][call'.name = "mining" =>
            /\ Len(chain') = Len(chain) + 1
            /\ RewardCopies(chain'[Len(chain')]) = 1]_vars

\* A block sealed by mining whose reward transaction is followed by a
\* transfer: a caller had added the reward's bytes to the pool before it.
C21_Witness ==
    /\ call.name = "mining"
    /\ Len(Newest(chain).transactions) >= 2
    /\ Newest(chain).transactions[1] = Reward
    /\ RewardCopies(Newest(chain)) = 1

\* The encoded transactions of every block of c, oldest first.
Sealed(c) == Concat([i \in 1..Len(c) |-> c[i].transactions])

\* The addresses that are sender or recipient of a sealed transaction.
Parties(c) ==
    UNION {{deserialization(Sealed(c)[n]).sender_address,
            deserialization(Sealed(c)[n]).recipient_address} :
                n \in 1..Len(Sealed(c))}

\* The sum of the balances of a sequence of addresses, as <<h, l>>; a balance
\* that calculate_total_amount does not return adds <<99, 0>>.
RECURSIVE SumOfBalances(_, _, _)
SumOfBalances(c, addresses, build) ==
    IF addresses = {} THEN <<0, 0>>
    ELSE LET a    == CHOOSE x \in addresses : TRUE
             r    == calculate_total_amount(c, a, build)
             v    == IF r.tag = "Ok" THEN Signed(r.val) ELSE <<99, 0>>
             rest == SumOfBalances(c, addresses \ {a}, build)
         IN  <<v[1] + rest[1], v[2] + rest[2]>>

\* C22: in every reachable state the balances calculate_total_amount
\* returns for the addresses that occur in sealed transactions add up to 0,
\* and a sealed transaction whose sender is its recipient changes no
\* balance.
C22_Conservation ==
    \A build \in Builds :
        /\ \A a \in Parties(chain) :
                calculate_total_amount(chain, a, build).tag = "Ok"
        /\ SumOfBalances(chain, Parties(chain), build) = <<0, 0>>
        /\ \A n \in 1..Len(Sealed(chain)) :
                LET tx == deserialization(Sealed(chain)[n])
                    zero == [tag |-> "Ok", val |-> I64(0)]
                IN  tx.sender_address = tx.recipient_address =>
                        \A a \in Addresses :
                            account(zero, Sealed(chain)[n], a, build) = zero

====
